---- MODULE Spec2Model ----
(***************************************************************************)
(* A model of pysql: the connection provider SQLConnection                 *)
(* (pysql/connection/sql_connection.py) and the generic repository         *)
(* BaseModelDAO (pysql/model/base_model_dao.py).                           *)
(*                                                                         *)
(* Python values: None is the string "None"; every other str is a TLA+     *)
(* string.  A formatted string (an f-string, or a str passed on verbatim)  *)
(* is the tuple of its pieces, so that the URL given verbatim and a URL    *)
(* assembled from a template are both tuples of strings.                   *)
(***************************************************************************)
EXTENDS Integers, Sequences, FiniteSets, TLC

VARIABLES
    env,      \* the process environment read by os.getenv
    conn,     \* the SQLConnection instance (its seven fields), or NoConn
    dao,      \* the BaseModelDAO instance (its bound model), or NoDAO
    store,    \* the table of the bound model: key -> row
    pc,       \* per caller: where its current call stands
    sess,     \* per caller: whether the Session of its call is open
    opened,   \* per caller: Sessions opened by its current or latest call
    creates,  \* successful creates since the table was empty, Void after a delete
    last      \* the latest call record: operation, arguments, outcome

vars == <<env, conn, dao, store, pc, sess, opened, creates, last>>

None == "None"

----------------------------------------------------------------------------
(* The connection provider.                                                *)

EnvNames == <<"USER_DB", "PASS_DB", "HOST_DB", "PORT_DB", "NAME_DB">>

UrlValues  == {None, "sqlite:///app.db", "postgresql://a:b@c:1/d"}
SgdbValues == {None, "sqlite", "SQLite", "postgres", "Postgres", "mysql",
               "MYSQL", "oracle", ""}

Envs ==
    [URL : UrlValues, USER_DB : {None, "u"}, PASS_DB : {None, "p"},
     HOST_DB : {None, "h"}, PORT_DB : {None, "5432"}, NAME_DB : {None, "db"},
     SGDB : SgdbValues]

NoConn == [URL |-> "NoConn"]

\* str.lower on the values SGDB takes here.
lower(s) ==
    CASE s = "SQLite"   -> "sqlite"
      [] s = "Postgres" -> "postgres"
      [] s = "MYSQL"    -> "mysql"
      [] OTHER          -> s

\* A comprehension that stops at the first name whose value is None.
missing_vars_first(c) ==
    IF SelectSeq(EnvNames, LAMBDA n : c[n] = None) = <<>>
    THEN <<>>
    ELSE <<Head(SelectSeq(EnvNames, LAMBDA n : c[n] = None))>>

\* The list comprehension of get_engine: the names whose value is None, in
\* the order of the list of pairs.
missing_vars(c) == SelectSeq(EnvNames, LAMBDA n : c[n] = None)

Raise(type, text, names) ==
    [kind |-> "raise", type |-> type, text |-> text, names |-> names]

\* sqlmodel.create_engine: an opaque handle on the target it is given.
create_engine(database_url, view_logs) ==
    [kind |-> "engine", url |-> database_url, echo |-> view_logs]

network_url(scheme, c) ==
    <<scheme, c.USER_DB, ":", c.PASS_DB, "@", c.HOST_DB, ":", c.PORT_DB, "/",
      c.NAME_DB>>

\* A chain of engine kinds whose last branch falls back on the file engine.
discrete_engine_fallback(c, view_logs) ==
    IF missing_vars(c) # <<>>
    THEN Raise("ValueError",
               "Database connection parameters not set in environment variables",
               missing_vars(c))
    ELSE IF c.SGDB = None
    THEN Raise("ValueError", "SGDB is not set in environment variables.", <<>>)
    ELSE IF lower(c.SGDB) = "postgres"
    THEN create_engine(network_url("postgresql://", c), view_logs)
    ELSE IF lower(c.SGDB) = "mysql"
    THEN create_engine(network_url("mysql+mysqlconnector://", c), view_logs)
    ELSE create_engine(<<"sqlite:///", c.NAME_DB, ".db">>, view_logs)

\* The else branch of get_engine: validation of the discrete parameters and
\* of the engine kind, then the template of the engine kind.
discrete_engine(c, view_logs) ==
    IF missing_vars(c) # <<>>
    THEN Raise("ValueError",
               "Database connection parameters not set in environment variables",
               missing_vars(c))
    ELSE IF c.SGDB = None
    THEN Raise("ValueError", "SGDB is not set in environment variables.", <<>>)
    ELSE IF lower(c.SGDB) = "sqlite"
    THEN create_engine(<<"sqlite:///", c.NAME_DB, ".db">>, view_logs)
    ELSE IF lower(c.SGDB) = "postgres"
    THEN create_engine(network_url("postgresql://", c), view_logs)
    ELSE IF lower(c.SGDB) = "mysql"
    THEN create_engine(network_url("mysql+mysqlconnector://", c), view_logs)
    ELSE Raise("ValueError", "Unsupported SGDB", <<c.SGDB>>)

\* A get_engine that validates the discrete parameters before it looks at URL.
get_engine_validate_first(c, view_logs) ==
    IF discrete_engine(c, view_logs).kind = "raise"
    THEN discrete_engine(c, view_logs)
    ELSE IF c.URL # None
    THEN create_engine(<<c.URL>>, view_logs)
    ELSE discrete_engine(c, view_logs)

get_engine(c, view_logs) ==
    IF c.URL # None
    THEN create_engine(<<c.URL>>, view_logs)
    ELSE discrete_engine(c, view_logs)

\* SQLConnection.__init__: the seven fields are read from the environment.
SQLConnection__init__ == [n \in DOMAIN env |-> env[n]]

----------------------------------------------------------------------------
(* The generic repository.                                                 *)

MaxKey == 2
Keys == 1..MaxKey
Fields == {"name", "age"}
Values == {None, "x"}
Callers == {"c1", "c2"}
Ops == {"get_all", "get_by_id", "create", "update", "delete"}

\* A payload holds the fields that were set on it: a function from a subset
\* of Fields to Values.  A field set to None is in the domain.
Payloads == UNION {[S -> Values] : S \in SUBSET Fields}
NoPayload == <<>>

\* The defaults the Entity declares for its own fields, and the defaults the
\* Update Payload declares (every field optional).
EntityDefault == [name |-> None, age |-> "x"]
UpdateDefault == [name |-> None, age |-> None]

\* Python values a repository call hands back.
PyNone == [kind |-> "None"]
PyTrue == [kind |-> "True"]
Obj(e) == [kind |-> "entity", val |-> e]
List(q) == [kind |-> "list", val |-> q]
StoreError == Raise("StoreError", "store failure", <<>>)

NoDAO == [model |-> "NoDAO"]
Void == 0 - 1
NoCall == [op |-> "none"]

\* typing.get_origin and typing.get_args of one entry of __orig_bases__.
Base(origin, args) == [origin |-> origin, args |-> args]
Binding == <<"User", "UserCreate", "UserUpdate">>
ClassDecls ==
    { <<Base("BaseModelDAO", Binding)>>,
      <<Base("Mixin", <<"User">>), Base("BaseModelDAO", Binding)>>,
      <<Base("Generic", <<"ModelType", "CreateType", "UpdateType">>)>>,
      <<Base("Mixin", <<"User", "UserCreate", "UserUpdate">>)>>,
      <<Base("BaseModelDAO", <<"User", "UserCreate">>)>>,
      <<Base("BaseModelDAO", <<"User", "UserCreate", "UserUpdate", "User">>)>>,
      <<Base("Mixin", <<"User">>), Base("BaseModelDAO", <<"User">>)>>,
      <<>> }

\* A loop over the bases that takes the first type argument of the first
\* BaseModelDAO base without counting the arguments.
RECURSIVE bind_unchecked(_)
bind_unchecked(bases) ==
    IF bases = <<>>
    THEN Raise("TypeError", "Could not determine ModelType", <<>>)
    ELSE IF Head(bases).origin = "BaseModelDAO"
    THEN [kind |-> "bound", model |-> Head(bases).args[1]]
    ELSE bind_unchecked(Tail(bases))

\* The for/else of BaseModelDAO.__init__ over __orig_bases__.
RECURSIVE bind(_)
bind(bases) ==
    IF bases = <<>>
    THEN Raise("TypeError", "Could not determine ModelType", <<>>)
    ELSE IF Head(bases).origin = "BaseModelDAO"
    THEN IF Len(Head(bases).args) # 3
         THEN Raise("TypeError", "BaseModelDAO requires 3 type arguments", <<>>)
         ELSE [kind |-> "bound", model |-> Head(bases).args[1]]
    ELSE bind(Tail(bases))

\* session.get(self.model, obj_id)
session_get(st, obj_id) ==
    IF obj_id \in DOMAIN st THEN Obj(st[obj_id]) ELSE PyNone

\* The table after a row is written (INSERT or UPDATE) or removed (DELETE).
put(st, e) == [k \in DOMAIN st \cup {e.id} |-> IF k = e.id THEN e ELSE st[k]]
remove(st, obj_id) == [k \in DOMAIN st \ {obj_id} |-> st[k]]

\* The orders in which a SELECT may return the rows of the table.
Orders(st) ==
    {q \in [1..Cardinality(DOMAIN st) -> DOMAIN st] :
        \A i, j \in DOMAIN q : i # j => q[i] # q[j]}

Result(st, out) == [store |-> st, out |-> out]

\* A get_all that answers None for a table without rows.
get_all_none_if_empty(st, order) ==
    IF DOMAIN st = {}
    THEN Result(st, PyNone)
    ELSE Result(st, List([i \in DOMAIN order |-> st[order[i]]]))

\* get_all: session.exec(select(self.model)).all()
get_all(st, order) ==
    Result(st, List([i \in DOMAIN order |-> st[order[i]]]))

\* get_by_id: session.get(self.model, obj_id)
get_by_id(st, obj_id) == Result(st, session_get(st, obj_id))

\* A validation that keeps only the Entity's defaults.
model_validate_defaults(obj_create) == EntityDefault

\* self.model.model_validate(obj_create): the payload's fields, and the
\* Entity's default for every other field; the key is not yet assigned.
model_validate(obj_create) ==
    [f \in Fields |->
        IF f \in DOMAIN obj_create THEN obj_create[f] ELSE EntityDefault[f]]

with_id(row, k) ==
    [f \in Fields \cup {"id"} |-> IF f = "id" THEN k ELSE row[f]]

\* create: add, commit (the store assigns new_id), refresh.
create(st, obj_create, new_id) ==
    LET db_obj == with_id(model_validate(obj_create), new_id)
        after  == put(st, db_obj)
    IN  Result(after, session_get(after, new_id))

\* A dump of every field of the payload, the unset ones at their defaults.
model_dump_all(obj_update) ==
    [f \in Fields |->
        IF f \in DOMAIN obj_update THEN obj_update[f] ELSE UpdateDefault[f]]

\* obj_update.model_dump(exclude_unset=True)
model_dump(obj_update) == obj_update

\* for key, value in update_data.items(): setattr(db_obj, key, value)
setattrs(db_obj, update_data) ==
    [f \in DOMAIN db_obj |->
        IF f \in DOMAIN update_data THEN update_data[f] ELSE db_obj[f]]

\* An update that inserts the row when the key is not found.
update_upsert(st, obj_id, obj_update) ==
    LET found  == IF obj_id \in DOMAIN st
                  THEN st[obj_id]
                  ELSE with_id(EntityDefault, obj_id)
        db_obj == setattrs(found, model_dump(obj_update))
        after  == put(st, db_obj)
    IN  Result(after, session_get(after, obj_id))

\* update: get, early return on None, setattr loop, add, commit, refresh.
update(st, obj_id, obj_update) ==
    IF session_get(st, obj_id) = PyNone
    THEN Result(st, PyNone)
    ELSE LET db_obj == setattrs(session_get(st, obj_id).val,
                                model_dump(obj_update))
             after  == put(st, db_obj)
         IN  Result(after, session_get(after, obj_id))

\* A delete that hands back the deleted object, as its docstring words it.
delete_returns_object(st, obj_id) ==
    IF session_get(st, obj_id) = PyNone
    THEN Result(st, PyNone)
    ELSE Result(remove(st, obj_id), session_get(st, obj_id))

\* delete: get, early return on None, delete, commit, return True.
delete(st, obj_id) ==
    IF session_get(st, obj_id) = PyNone
    THEN Result(st, PyNone)
    ELSE Result(remove(st, obj_id), PyTrue)

\* A with-block that leaves its Session open.
session_exit_leak(s, c) == s

\* Session.__exit__: the Session of the call is closed.
session_exit(s, c) == [s EXCEPT ![c] = FALSE]

Call(op, obj_id, payload, out) ==
    [op |-> op, key |-> obj_id, payload |-> payload, out |-> out]

----------------------------------------------------------------------------
InitRest ==
    /\ conn = NoConn
    /\ dao = NoDAO
    /\ store = <<>>
    /\ pc = [c \in Callers |-> "idle"]
    /\ sess = [c \in Callers |-> FALSE]
    /\ opened = [c \in Callers |-> 0]
    /\ creates = 0
    /\ last = NoCall

repo == <<dao, store, pc, sess, opened, creates>>

\* A program that uses the connection provider alone.
ConnInit ==
    /\ env \in Envs
    /\ InitRest

NewConnection ==
    /\ conn = NoConn
    /\ conn' = SQLConnection__init__
    /\ last' = [op |-> "SQLConnection", out |-> PyNone]
    /\ UNCHANGED <<env, repo>>

GetEngine(view_logs) ==
    /\ conn # NoConn
    /\ last' = [op |-> "get_engine", out |-> get_engine(conn, view_logs)]
    /\ UNCHANGED <<env, conn, repo>>

ConnNext ==
    \/ NewConnection
    \/ \E view_logs \in BOOLEAN : GetEngine(view_logs)

SpecConn == ConnInit /\ [][ConnNext]_vars

----------------------------------------------------------------------------
(* A program that constructs one repository and calls it from Callers.     *)

RepoEnvs ==
    { [URL |-> None, USER_DB |-> "u", PASS_DB |-> "p", HOST_DB |-> "h",
       PORT_DB |-> "5432", NAME_DB |-> "db", SGDB |-> "sqlite"],
      [URL |-> None, USER_DB |-> "u", PASS_DB |-> "p", HOST_DB |-> "h",
       PORT_DB |-> "5432", NAME_DB |-> None, SGDB |-> "sqlite"] }

Init ==
    /\ env \in RepoEnvs
    /\ InitRest

\* BaseModelDAO.__init__ of a class declared with the bases cls.
Construct(cls) ==
    /\ dao = NoDAO
    /\ IF bind(cls).kind = "bound"
       THEN /\ dao' = [model |-> bind(cls).model]
            /\ conn' = SQLConnection__init__
            /\ last' = [op |-> "__init__", cls |-> cls, out |-> PyNone]
       ELSE /\ UNCHANGED <<dao, conn>>
            /\ last' = [op |-> "__init__", cls |-> cls, out |-> bind(cls)]
    /\ UNCHANGED <<env, store, pc, sess, opened, creates>>

\* A call starts.  The five methods start with the same statement,
\* with Session(self._sql_connection.get_engine()) as session, which reads no
\* argument of the call: get_engine(), then Session(...) and its __enter__.
\* When get_engine raises, the call ends there and no Session was made.
Enter(c, op) ==
    /\ dao # NoDAO
    /\ pc[c] \in {"idle", "exited"}
    /\ IF get_engine(conn, FALSE).kind = "engine"
       THEN /\ pc' = [pc EXCEPT ![c] = "session"]
            /\ sess' = [sess EXCEPT ![c] = TRUE]
            /\ opened' = [opened EXCEPT ![c] = 1]
            /\ UNCHANGED last
       ELSE /\ pc' = [pc EXCEPT ![c] = "exited"]
            /\ opened' = [opened EXCEPT ![c] = 0]
            /\ last' = Call(op, 0, NoPayload, get_engine(conn, FALSE))
            /\ UNCHANGED sess
    /\ UNCHANGED <<env, conn, dao, store, creates>>

\* The body of the with-block of a call, as one transaction of the store.
\* The method called and its arguments are drawn here, where they are first
\* read.
Body(c, op, obj_id, payload, r) ==
    /\ pc[c] = "session"
    /\ pc' = [pc EXCEPT ![c] = "done"]
    /\ store' = r.store
    /\ last' = Call(op, obj_id, payload, r.out)
    /\ UNCHANGED <<env, conn, dao, sess, opened>>

GetAll(c) ==
    \E order \in Orders(store) :
        /\ Body(c, "get_all", 0, NoPayload, get_all(store, order))
        /\ UNCHANGED creates

GetById(c, obj_id) ==
    /\ Body(c, "get_by_id", obj_id, NoPayload, get_by_id(store, obj_id))
    /\ UNCHANGED creates

Create(c, obj_create) ==
    \E new_id \in Keys \ DOMAIN store :
        /\ Body(c, "create", 0, obj_create, create(store, obj_create, new_id))
        /\ creates' = IF creates = Void THEN Void ELSE creates + 1

Update(c, obj_id, obj_update) ==
    /\ Body(c, "update", obj_id, obj_update, update(store, obj_id, obj_update))
    /\ UNCHANGED creates

Delete(c, obj_id) ==
    /\ Body(c, "delete", obj_id, NoPayload, delete(store, obj_id))
    /\ creates' = IF store' = store THEN creates
                  ELSE IF DOMAIN store' = {} THEN 0 ELSE Void

\* The store fails during the query or the commit: the error propagates and
\* the transaction is rolled back.
StoreFails(c, op) ==
    /\ Body(c, op, 0, NoPayload, Result(store, StoreError))
    /\ UNCHANGED creates

\* The with-block is left, by return or by the propagating error.
Exit(c) ==
    /\ pc[c] = "done"
    /\ pc' = [pc EXCEPT ![c] = "exited"]
    /\ sess' = session_exit(sess, c)
    /\ UNCHANGED <<env, conn, dao, store, opened, creates, last>>

Next ==
    \/ \E cls \in ClassDecls : Construct(cls)
    \/ \E c \in Callers, op \in Ops : Enter(c, op)
    \/ \E c \in Callers : GetAll(c)
    \/ \E c \in Callers, k \in Keys : GetById(c, k)
    \/ \E c \in Callers, p \in Payloads : Create(c, p)
    \/ \E c \in Callers, k \in Keys, p \in Payloads : Update(c, k, p)
    \/ \E c \in Callers, k \in Keys : Delete(c, k)
    \/ \E c \in Callers, op \in Ops : StoreFails(c, op)
    \/ \E c \in Callers : Exit(c)

Spec == Init /\ [][Next]_vars

----------------------------------------------------------------------------
(* Claims about the connection provider, checked under SpecConn.           *)

Range(q) == {q[i] : i \in DOMAIN q}
Discrete == Range(EnvNames)
Absent(c) == {n \in Discrete : c[n] = None}
Recognized == {"sqlite", "SQLite", "postgres", "Postgres", "mysql", "MYSQL"}
EngineAnswered == conn # NoConn /\ last.op = "get_engine"

\* C7: when URL is not set and a non-empty set M of the five discrete fields
\* is absent, get_engine raises the configuration error about connection
\* parameters, its message names exactly the fields of M, and no handle is
\* returned, whatever SGDB is.
C7_MissingAllNamed ==
    (EngineAnswered /\ conn.URL = None /\ Absent(conn) # {}) =>
        /\ last.out.kind = "raise"
        /\ last.out.type = "ValueError"
        /\ last.out.text =
              "Database connection parameters not set in environment variables"
        /\ Range(last.out.names) = Absent(conn)
        /\ Len(last.out.names) = Cardinality(Absent(conn))

C7_Witness ==
    /\ EngineAnswered
    /\ conn.URL = None
    /\ conn.SGDB = "sqlite"
    /\ Absent(conn) = {"PASS_DB", "PORT_DB", "NAME_DB"}
    /\ last.out.kind = "raise"
    /\ last.out.names = <<"PASS_DB", "PORT_DB", "NAME_DB">>

\* C8: whenever URL is set, get_engine returns a handle on the URL value
\* verbatim and raises nothing, and the answer is the same for every value
\* of the five discrete fields and of SGDB.
C8_UrlPrecedence ==
    (EngineAnswered /\ conn.URL # None) =>
        /\ last.out.kind = "engine"
        /\ last.out.url = <<conn.URL>>
        /\ \A other \in Envs :
              other.URL = conn.URL =>
                  get_engine(other, last.out.echo) = last.out

C8_Witness ==
    /\ EngineAnswered
    /\ conn.URL = "sqlite:///app.db"
    /\ Absent(conn) = Discrete
    /\ conn.SGDB = "oracle"
    /\ last.out.kind = "engine"

\* C9 as stated: a configuration whose SGDB is absent or is none of sqlite,
\* postgres, mysql (case-insensitively) never yields a handle.
C9_Original ==
    (EngineAnswered /\ conn.SGDB \notin Recognized) =>
        (last.out.kind = "raise" /\ last.out.type = "ValueError")

\* C9 amended: when URL is not set, a configuration whose SGDB is absent or
\* is none of sqlite, postgres, mysql (case-insensitively) makes get_engine
\* raise a configuration error and never yields a handle.
C9_UnrecognizedKindFails ==
    (EngineAnswered /\ conn.URL = None /\ conn.SGDB \notin Recognized) =>
        (last.out.kind = "raise" /\ last.out.type = "ValueError")

C9_Witness ==
    /\ EngineAnswered
    /\ conn.URL = None
    /\ Absent(conn) = {}
    /\ conn.SGDB = "oracle"
    /\ last.out.kind = "raise"
    /\ last.out.names = <<"oracle">>

----------------------------------------------------------------------------
(* Claims about the repository, checked under Spec.  A step in which caller *)
(* c runs the body of method op is Ran(c, op); last' is then the record of  *)
(* that call and last the record of the call before it.                     *)

Ran(c, op) == pc[c] = "session" /\ pc'[c] = "done" /\ last'.op = op
Failed(call) == call.out.kind = "raise" /\ call.out.type = "StoreError"
InRepo == dao # NoDAO /\ last.op \in Ops
Rows(st) == {st[k] : k \in DOMAIN st}

\* C1: update(k, payload) of a stored entity sets exactly the fields set in
\* the payload (a field set to None included) to the payload's values,
\* leaves the other fields of the entity and every other entity as they
\* were, and returns the entity as stored after the commit.
C1_PartialUpdate ==
    [][\A c \in Callers :
        (Ran(c, "update") /\ last'.key \in DOMAIN store /\ ~Failed(last')) =>
            /\ DOMAIN store' = DOMAIN store
            /\ \A k \in DOMAIN store \ {last'.key} : store'[k] = store[k]
            /\ store'[last'.key].id = last'.key
            /\ \A f \in DOMAIN last'.payload :
                  store'[last'.key][f] = last'.payload[f]
            /\ \A f \in Fields \ DOMAIN last'.payload :
                  store'[last'.key][f] = store[last'.key][f]
            /\ last'.out = Obj(store'[last'.key])]_vars

C1_Witness ==
    /\ InRepo
    /\ last.op = "update"
    /\ last.key = 1
    /\ DOMAIN last.payload = {"name"}
    /\ last.payload["name"] = None
    /\ last.out.kind = "entity"
    /\ last.out.val["age"] = "x"
    /\ DOMAIN store = {1, 2}
    /\ store[1] = last.out.val

\* C2: a get_by_id(e.id) that is the next call after a successful create(p)
\* returning e finds an entity whose key is e.id and whose value in every
\* field supplied by p is p's.
C2_CreateReadRoundTrip ==
    [][\A c \in Callers :
        (/\ Ran(c, "get_by_id")
         /\ ~Failed(last')
         /\ last.op = "create"
         /\ last.out.kind = "entity"
         /\ last'.key = last.out.val.id) =>
            /\ last'.out.kind = "entity"
            /\ last'.out.val.id = last.out.val.id
            /\ \A f \in DOMAIN last.payload :
                  last'.out.val[f] = last.payload[f]]_vars

\* One create since the table was empty, then get_by_id of its key.
C2_Witness ==
    /\ InRepo
    /\ last.op = "get_by_id"
    /\ last.key = 2
    /\ creates = 1
    /\ DOMAIN store = {2}
    /\ last.out = Obj([id |-> 2, name |-> "x", age |-> None])

\* C3: for a key that is not in the store, get_by_id, update (with any
\* payload) and delete return None, never an error of their own, and leave
\* the store as it was.
C3_NotFoundIsNone ==
    [][\A c \in Callers : \A op \in {"get_by_id", "update", "delete"} :
        (Ran(c, op) /\ last'.key \notin DOMAIN store /\ ~Failed(last')) =>
            (last'.out = PyNone /\ store' = store)]_vars

C3_Witness ==
    /\ InRepo
    /\ last.op = "update"
    /\ last.key = 2
    /\ DOMAIN last.payload = Fields
    /\ last.out = PyNone
    /\ DOMAIN store = {1}

C5_ListReflectsStore ==
    [][\A c \in Callers :
        (Ran(c, "get_all") /\ ~Failed(last')) =>
            /\ last'.out.kind = "list"
            /\ Len(last'.out.val) = Cardinality(DOMAIN store)
            /\ Range(last'.out.val) = Rows(store)
            /\ DOMAIN store = {} => last'.out.val = <<>>
            /\ creates # Void => Len(last'.out.val) = creates
            /\ store' = store]_vars

C5_Witness ==
    /\ InRepo
    /\ last.op = "get_all"
    /\ last.out.kind = "list"
    /\ Len(last.out.val) = 2
    /\ last.out.val[1].id = 2
    /\ creates = 2

\* The first BaseModelDAO entry of the bases carries three type arguments.
Declares3(cls) ==
    \E i \in DOMAIN cls :
        /\ cls[i].origin = "BaseModelDAO"
        /\ Len(cls[i].args) = 3
        /\ \A j \in 1..(i - 1) : cls[j].origin # "BaseModelDAO"

\* C6: a class that does not declare BaseModelDAO with exactly three type
\* arguments cannot be constructed: __init__ raises TypeError, no instance
\* exists and no call runs; a constructed instance records the first of
\* the three declared type arguments.
C6_BindingError ==
    /\ [](\A c \in Callers : (pc[c] # "idle" \/ sess[c]) => dao # NoDAO)
    /\ [][last'.op = "__init__" =>
            IF Declares3(last'.cls)
            THEN /\ last'.out = PyNone
                 /\ \E i \in DOMAIN last'.cls :
                      /\ last'.cls[i].origin = "BaseModelDAO"
                      /\ dao'.model = last'.cls[i].args[1]
            ELSE /\ last'.out.kind = "raise"
                 /\ last'.out.type = "TypeError"
                 /\ dao' = NoDAO]_vars
    /\ [][dao' # dao => last'.op = "__init__"]_vars

C6_Witness ==
    /\ last.op = "__init__"
    /\ last.cls = <<Base("BaseModelDAO", <<"User", "UserCreate">>)>>
    /\ last.out.kind = "raise"
    /\ dao = NoDAO

\* C10 as stated: every call opens exactly one Session, closed when the call
\* has returned or raised; no Session is open between calls.
C10_Original ==
    \A c \in Callers :
        /\ pc[c] \in {"session", "done"} => (sess[c] /\ opened[c] = 1)
        /\ pc[c] = "exited" => (~sess[c] /\ opened[c] = 1)
        /\ pc[c] = "idle" => ~sess[c]

\* C10 amended: a call whose get_engine() returns a handle opens exactly
\* one Session, which is closed when the call has returned or raised, on
\* the normal return, the early return and a store error alike; a call
\* whose get_engine() raises opens none; no Session is open between calls.
C10_SessionScoped ==
    \A c \in Callers :
        /\ pc[c] \in {"session", "done"} => (sess[c] /\ opened[c] = 1)
        /\ pc[c] = "exited" =>
              /\ ~sess[c]
              /\ opened[c] =
                    IF get_engine(conn, FALSE).kind = "engine" THEN 1 ELSE 0
        /\ pc[c] = "idle" => (~sess[c] /\ opened[c] = 0)

C10_Witness ==
    /\ InRepo
    /\ Failed(last)
    /\ pc["c1"] = "exited"
    /\ ~sess["c1"]
    /\ opened["c1"] = 1
    /\ pc["c2"] = "done"
    /\ sess["c2"]
====
